---- MODULE Spec2Model ----
(***************************************************************************)
(* A model of nyctviz's StationMapper (src/station_mapper.py): the mapper  *)
(* loaded once by __init__, the draw call (selector resolution, row        *)
(* assembly, sort, painting, label options) and map_transform.             *)
(*                                                                         *)
(* Number representation (TLC has integers only):                          *)
(*   - geographic coordinates are in units of 1e-5 degree;                 *)
(*   - planar (reprojected) coordinates are in feet;                       *)
(*   - areas are integers; a radius is in thousandths (milli-units),       *)
(*     Radius(area) = floor(1000 * sqrt(area / pi));                       *)
(*   - cosines and sines are in thousandths.                               *)
(* Python objects that are passed by reference (dicts, lists) are values   *)
(* tagged with their kind; the function's default-argument objects, which  *)
(* Python creates once and shares between calls, are the state variable    *)
(* defaults.                                                               *)
(***************************************************************************)
EXTENDS Integers, Sequences, FiniteSets, TLC

\* Largest area a caller's size map holds in the enumerated inputs.
MaxArea == 1
\* Longest point list handed to map_transform in the enumerated inputs.
MaxPoints == 2

VARIABLES
    transform,   \* self._transform
    boroughs,    \* self._boroughs
    corridors,   \* self._corridors
    locations,   \* self._locations
    defaults,    \* draw's default-argument objects (shared by every call)
    pc,          \* the caller: "ready", "drawn" (holds a figure), "transformed"
    request,     \* the arguments of the last draw call, as written by the caller
    passed,      \* the objects those arguments denoted, as they were before the call
    after,       \* the same objects as they are after the call
    fig,         \* the figure the last draw call returned
    tpoints,     \* the argument of the last map_transform call
    tresult      \* its return value

vars == <<transform, boroughs, corridors, locations, defaults, pc, request,
          passed, after, fig, tpoints, tresult>>

(***************************************************************************)
(* Python values                                                           *)
(***************************************************************************)
Omitted == [kind |-> "omitted"]
Dict(d) == [kind |-> "dict", d |-> d]
List(l) == [kind |-> "list", l |-> l]
Bool(b) == [kind |-> "bool", b |-> b]
EmptyDict == [k \in {} |-> 0]

\* The ids a collection holds: the keys of a dict, the elements of a list.
\* (draw only ever tests membership, through `in` and set(...).)
Members(x) == IF x.kind = "dict" THEN DOMAIN x.d ELSE x.l

\* is_empty: len(x)==0, and False when len raises (True, False).
is_empty(x) ==
    CASE x.kind = "dict" -> DOMAIN x.d = {}
      [] x.kind = "list" -> x.l = {}
      [] OTHER -> FALSE

IsTrue(x) == x.kind = "bool" /\ x.b
IsFalse(x) == x.kind = "bool" /\ ~x.b

(***************************************************************************)
(* Coordinate transform                                                    *)
(***************************************************************************)
\* self._rotate_degrees
RotateDegrees == -29
\* self._rotate_origin, (-73.9758, 40.7675), a longitude/latitude pair.
RotateOrigin == <<-7397580, 4076750>>

\* The number a coordinate holds, read as a planar coordinate: the float
\* -73.9758 is 73.9758 feet west of the false origin (rounded to a foot).
AsPlanar(p) == <<(p[1] + 50000) \div 100000, (p[2] + 50000) \div 100000>>

\* pyproj's transform from EPSG:4326 to the Long Island state plane (feet):
\* a local linear stand-in for the Lambert conformal conic projection with
\* lon_0=-74, lat_0=40.1667, x_0=300000 m (984250 ft), about 2.769 ft per
\* 1e-5 degree of longitude and 3.643 ft per 1e-5 degree of latitude.
Project(p) ==
    << 984250 + ((p[1] + 7400000) * 2769) \div 1000,
       ((p[2] - 4016667) * 3643) \div 1000 >>

_map_reproject(points) == [i \in DOMAIN points |-> Project(points[i])]

\* math.cos(theta), math.sin(theta) for theta = -math.radians(degrees).
CosTheta(degrees) == IF degrees = -29 \/ degrees = 29 THEN 875 ELSE 1000
SinTheta(degrees) == IF degrees = -29 THEN 485 ELSE IF degrees = 29 THEN -485 ELSE 0

\* rotation * (points - origin) + origin, origin taken as given.
_map_rotate(points, degrees, origin) ==
    [i \in DOMAIN points |->
        LET dx == points[i][1] - origin[1]
            dy == points[i][2] - origin[2]
        IN << (CosTheta(degrees) * dx - SinTheta(degrees) * dy) \div 1000 + origin[1],
              (SinTheta(degrees) * dx + CosTheta(degrees) * dy) \div 1000 + origin[2] >>]

_map_transform(points) ==
    _map_rotate(_map_reproject(points), RotateDegrees, AsPlanar(RotateOrigin))

map_transform(t, points) == IF t THEN _map_transform(points) ELSE points

\* self._unit_scaling, in coordinate units per thousand map units:
\* 500 feet, or 1/400 degree = 250e-5 degree.
UnitScaling(t) == IF t THEN 500 ELSE 250

\* self._xmin .. self._ymax and self._xmin_zoom .. self._ymax_zoom.
FullExtent(t) ==
    IF t THEN [xmin |-> 724150, xmax |-> 854800, ymin |-> 539550, ymax |-> 743450]
    ELSE [xmin |-> -7428337, xmax |-> -7367223, ymin |-> 4047514, ymax |-> 4093650]
ZoomExtent(t) ==
    IF t THEN [xmin |-> 746000, xmax |-> 854000, ymin |-> 600000, ymax |-> 741000]
    ELSE [xmin |-> -7406000, xmax |-> -7369000, ymin |-> 4053000, ymax |-> 4093000]

(***************************************************************************)
(* The data __init__ loads: one borough, three corridors of two routes,    *)
(* three parent stations.                                                  *)
(***************************************************************************)
\* route_colors, the hard-coded table (the entries the loaded routes use).
route_colors(route_id) ==
    CASE route_id = "A" -> "#2850AD"
      [] route_id = "G" -> "#6CBE45"
      [] route_id = "L" -> "#A7A9AC"

ShapePoint(shape_id, route_id, seq, lon, lat) ==
    [shape_id |-> shape_id, shape_pt_sequence |-> seq, shape_pt_lat |-> lat,
     shape_pt_lon |-> lon, route_id |-> route_id,
     route_color |-> route_colors(route_id)]

LoadedBoroughs ==
    [boro_name \in {"Test"} |->
        << << <<-7402000, 4069000>>, <<-7389000, 4069000>>, <<-7395000, 4081000>> >> >>]

LoadedCorridors ==
    << ShapePoint("A.0", "A", 0, -7400000, 4070000),
       ShapePoint("A.0", "A", 1, -7397580, 4076750),
       ShapePoint("A.1", "A", 0, -7397580, 4076750),
       ShapePoint("A.1", "A", 1, -7390000, 4080000),
       ShapePoint("G.0", "G", 0, -7400000, 4070000),
       ShapePoint("G.0", "G", 1, -7390000, 4080000) >>

LoadedLocations ==
    << [location_id |-> "S1", location_name |-> "First St",
        location_lat |-> 4070000, location_lon |-> -7400000, route_id |-> {"A", "G"}],
       [location_id |-> "S2", location_name |-> "Second St",
        location_lat |-> 4076750, location_lon |-> -7397580, route_id |-> {"A"}],
       [location_id |-> "S3", location_name |-> "Third St",
        location_lat |-> 4080000, location_lon |-> -7390000, route_id |-> {"A", "G"}] >>

\* corridors['route_id'].unique() and locations['location_id'].unique()
UniqueRouteIds(corr) == {corr[i].route_id : i \in DOMAIN corr}
UniqueLocationIds(locs) == {locs[i].location_id : i \in DOMAIN locs}

(***************************************************************************)
(* draw: resolution of the selectors and the defaults                      *)
(***************************************************************************)
\* Variant: the selectors tested for truth (`if not route_list`), so that
\* False counts as empty.
ResolveRouteListFalsy(route_list, corr) ==
    IF is_empty(route_list) \/ route_list.kind = "bool"
    THEN UniqueRouteIds(corr) ELSE Members(route_list)

ResolveRouteList(route_list, corr) ==
    IF is_empty(route_list) THEN UniqueRouteIds(corr)
    ELSE IF IsTrue(route_list) THEN UniqueRouteIds(corr)
    ELSE IF IsFalse(route_list) THEN {}
    ELSE Members(route_list)

ResolveLocationListFalsy(location_list, locs) ==
    IF is_empty(location_list) \/ location_list.kind = "bool"
    THEN UniqueLocationIds(locs) ELSE Members(location_list)

ResolveLocationList(location_list, locs) ==
    IF is_empty(location_list) THEN UniqueLocationIds(locs)
    ELSE IF IsTrue(location_list) THEN UniqueLocationIds(locs)
    ELSE IF IsFalse(location_list) THEN {}
    ELSE Members(location_list)

\* Variant: no labels unless the caller asks for them.
ResolveLocationLabelsUnlessAsked(location_labels, sizes, locs) ==
    IF is_empty(location_labels) \/ IsFalse(location_labels) THEN EmptyDict
    ELSE IF IsTrue(location_labels)
         THEN [location_id \in UniqueLocationIds(locs) |-> location_id]
    ELSE location_labels.d

\* The dict location_labels is bound to after lines 209-218.
ResolveLocationLabels(location_labels, sizes, locs) ==
    IF is_empty(location_labels)
    THEN IF is_empty(sizes) THEN EmptyDict
         ELSE [location_id \in UniqueLocationIds(locs) |-> location_id]
    ELSE IF IsFalse(location_labels) THEN EmptyDict
    ELSE IF IsTrue(location_labels)
         THEN [location_id \in UniqueLocationIds(locs) |-> location_id]
    ELSE location_labels.d

\* The dict sizes is bound to after lines 220-222.
ResolveSizes(sizes, locs) ==
    IF is_empty(sizes) THEN [location_id \in UniqueLocationIds(locs) |-> 1]
    ELSE sizes.d

\* The dict colors is bound to after lines 224-226.
ResolveColors(colors) == IF is_empty(colors) THEN EmptyDict ELSE colors.d

(***************************************************************************)
(* draw: the row table                                                     *)
(***************************************************************************)
RECURSIVE ISqrtBetween(_, _, _)
\* The largest r in lo..hi with r*r <= n (lo*lo <= n < (hi+1)*(hi+1)).
ISqrtBetween(n, lo, hi) ==
    IF lo = hi THEN lo
    ELSE LET mid == (lo + hi + 1) \div 2
         IN IF mid * mid <= n THEN ISqrtBetween(n, mid, hi)
            ELSE ISqrtBetween(n, lo, mid - 1)

\* math.sqrt(area/math.pi) in thousandths: 1e6/pi = 318310.
Radius(area) == ISqrtBetween(area * 318310, 0, 46340)

\* Variant: a location without a size entry gets the unit area.
BuildRowUnitArea(row, colors, sizes, location_labels) ==
    LET location_id == row.location_id
        area == IF location_id \in DOMAIN sizes THEN sizes[location_id] ELSE 1
    IN [location_id |-> location_id,
        lon |-> row.location_lon,
        lat |-> row.location_lat,
        area |-> area,
        radius |-> Radius(area),
        color |-> IF location_id \in DOMAIN colors THEN colors[location_id] ELSE "gray",
        label |-> IF location_id \in DOMAIN location_labels
                  THEN row.location_name ELSE ""]

BuildRow(row, colors, sizes, location_labels) ==
    LET location_id == row.location_id
        color == IF location_id \in DOMAIN colors THEN colors[location_id] ELSE "gray"
        area == IF location_id \in DOMAIN sizes THEN sizes[location_id] ELSE 0
    IN [location_id |-> location_id,
        lon |-> row.location_lon,
        lat |-> row.location_lat,
        area |-> area,
        radius |-> Radius(area),
        color |-> color,
        label |-> IF location_id \in DOMAIN location_labels
                  THEN row.location_name ELSE ""]

\* math.sqrt raises ValueError on a negative number.
SqrtRaises(locs, sizes) ==
    \E i \in DOMAIN locs :
        locs[i].location_id \in DOMAIN sizes /\ sizes[locs[i].location_id] < 0

BuildData(locs, colors, sizes, location_labels) ==
    [i \in DOMAIN locs |-> BuildRow(locs[i], colors, sizes, location_labels)]

\* One step of the sort: row goes after the rows of the sorted prefix that
\* precede it in the order (ties keep the original order).
InsertRow(sorted, row, ascending) ==
    LET k == Cardinality({i \in DOMAIN sorted :
                 IF ascending THEN sorted[i].radius <= row.radius
                 ELSE sorted[i].radius >= row.radius})
    IN SubSeq(sorted, 1, k) \o <<row>> \o SubSeq(sorted, k + 1, Len(sorted))

RECURSIVE SortPrefix(_, _, _)
SortPrefix(data, n, ascending) ==
    IF n = 0 THEN <<>>
    ELSE InsertRow(SortPrefix(data, n - 1, ascending), data[n], ascending)

\* Variant: ascending=False left out.
SortAscending(data) == SortPrefix(data, Len(data), TRUE)

\* data.sort_values(['radius'],ascending=False).reset_index(drop=True)
sort_values(data) == SortPrefix(data, Len(data), FALSE)

(***************************************************************************)
(* draw: painting                                                          *)
(***************************************************************************)
\* Variant: the zoom flag ignored.
ViewExtentIgnoringZoom(t, zoom) == FullExtent(t)

\* The extents lines 266-276 bind xmin, xmax, ymin, ymax to.
ViewExtent(t, zoom) == IF zoom THEN ZoomExtent(t) ELSE FullExtent(t)

\* The rectangle [(xmin,ymin),(xmin,ymax),(xmax,ymax),(xmax,ymin)] of lines
\* 306-307, built from the local xmin .. ymax.
Rectangle(extent, facecolor, alpha, zorder) ==
    [xmin |-> extent.xmin, xmax |-> extent.xmax,
     ymin |-> extent.ymin, ymax |-> extent.ymax,
     facecolor |-> facecolor, alpha |-> alpha, zorder |-> zorder]

\* One polygon patch per polygon of every borough.
BoroughPatches(t, boro) ==
    UNION {{[feature_id |-> f, index |-> k,
             points |-> map_transform(t, boro[f][k]),
             facecolor |-> "whitesmoke", zorder |-> "1"] : k \in DOMAIN boro[f]} :
           f \in DOMAIN boro}

\* The rows of one group of corridors.groupby(['shape_id']).
ShapeGroup(corr, shape_id) == SelectSeq(corr, LAMBDA r : r.shape_id = shape_id)

\* One ax.plot per shape id whose first row's route id is in set(route_list).
Polyline(t, grp) ==
    [shape_id |-> grp[1].shape_id,
     color |-> grp[1].route_color,
     points |-> map_transform(t,
         [i \in DOMAIN grp |-> <<grp[i].shape_pt_lon, grp[i].shape_pt_lat>>]),
     zorder |-> "2"]

RECURSIVE ShapeIds(_, _)
\* The group keys of corridors.groupby(['shape_id']), each once, over the
\* first n rows (the loaded table is in shape id order).
ShapeIds(corr, n) ==
    IF n = 0 THEN <<>>
    ELSE LET before == ShapeIds(corr, n - 1)
         IN IF \E i \in DOMAIN before : before[i] = corr[n].shape_id
            THEN before ELSE Append(before, corr[n].shape_id)

Polylines(t, corr, route_ids) ==
    LET keys == ShapeIds(corr, Len(corr))
        groups == [i \in DOMAIN keys |-> ShapeGroup(corr, keys[i])]
        plotted == SelectSeq(groups, LAMBDA grp : grp[1].route_id \in route_ids)
    IN [i \in DOMAIN plotted |-> Polyline(t, plotted[i])]

default_location_label_options ==
    [ha |-> "left", va |-> "center", color |-> "black", fontsize |-> 8,
     alpha |-> 100, zorder |-> 4, bbox |-> [facecolor |-> "white", alpha |-> 50]]

\* The entries location_label_options holds after the loop of lines 319-321.
MergeLabelOptions(options) ==
    [param \in DOMAIN options \cup DOMAIN default_location_label_options |->
        IF param \in DOMAIN options THEN options[param]
        ELSE default_location_label_options[param]]

\* label_h_offset, label_v_offset of lines 336-349 (radius, padding scaled).
LabelHOffset(options, radius, padding) ==
    CASE options.ha = "center" -> 0
      [] options.ha = "left" -> radius + padding
      [] options.ha = "right" -> 0 - (radius + padding)
LabelVOffset(options, radius, padding) ==
    CASE options.va = "center" -> 0
      [] options.va = "bottom" -> radius + padding
      [] options.va = "top" -> 0 - (radius + padding)

\* The rows the loop of lines 324-353 paints, in painting order.
PaintedRows(data, location_ids) ==
    SelectSeq(data, LAMBDA row : row.location_id \in location_ids)

Circle(t, row) ==
    LET at == map_transform(t, <<<<row.lon, row.lat>>>>)[1]
    IN [location_id |-> row.location_id, x |-> at[1], y |-> at[2],
        radius |-> (row.radius * UnitScaling(t)) \div 1000,
        facecolor |-> row.color, zorder |-> "3"]

Text(t, row, options) ==
    LET at == map_transform(t, <<<<row.lon, row.lat>>>>)[1]
        radius == (row.radius * UnitScaling(t)) \div 1000
        padding == (1500 * UnitScaling(t)) \div 1000
    IN [location_id |-> row.location_id,
        x |-> at[1] + LabelHOffset(options, radius, padding),
        y |-> at[2] + LabelVOffset(options, radius, padding),
        text |-> row.label, options |-> options]

(***************************************************************************)
(* draw                                                                    *)
(***************************************************************************)
NoFig ==
    [status |-> "none", data |-> <<>>, patches |-> {}, polylines |-> <<>>,
     background |-> {}, mask |-> {}, circles |-> <<>>, texts |-> <<>>,
     xlim |-> <<>>, ylim |-> <<>>]

\* Variant: the default sizes stored into the passed dict
\* (sizes[location_id] = 1) instead of a new dict bound to the name.
ObjectsInPlace(args, locs) ==
    [args EXCEPT !.sizes = Dict(ResolveSizes(args.sizes, locs))]

\* What the objects passed for sizes, colors, route_list, location_list and
\* location_labels hold after the call: lines 194-226 rebind the local names
\* and leave the objects alone.
ObjectsUntouched(args, locs) == args

\* What the object passed for location_label_options holds after the call:
\* lines 319-321 store the missing defaults into it.
OptionsObjectAfter(options) == Dict(MergeLabelOptions(options.d))

\* The figure a call of draw returns and the state it leaves the argument
\* objects in; status "error" when the call raises (nothing is returned).
draw(t, boro, corr, locs, args) ==
    LET route_list == ResolveRouteList(args.route_list, corr)
        location_list == ResolveLocationList(args.location_list, locs)
        location_labels == ResolveLocationLabels(args.location_labels, args.sizes, locs)
        sizes == ResolveSizes(args.sizes, locs)
        colors == ResolveColors(args.colors)
        rebound == ObjectsUntouched(args, locs)
    IN IF SqrtRaises(locs, sizes)
       THEN [fig |-> [NoFig EXCEPT !.status = "error"], after |-> rebound]
       ELSE LET data == sort_values(BuildData(locs, colors, sizes, location_labels))
                extent == ViewExtent(t, args.zoom)
                options == OptionsObjectAfter(args.location_label_options)
                painted == PaintedRows(data, location_list)
            IN [fig |->
                  [status |-> "ok",
                   data |-> data,
                   patches |-> BoroughPatches(t, boro),
                   polylines |-> Polylines(t, corr, route_list),
                   background |-> {Rectangle(extent, "aliceblue", 100, "0")},
                   mask |-> {Rectangle(extent, "white", 50, "2.5")},
                   circles |-> [i \in DOMAIN painted |-> Circle(t, painted[i])],
                   texts |-> [i \in DOMAIN painted |-> Text(t, painted[i], options.d)],
                   xlim |-> <<extent.xmin, extent.xmax>>,
                   ylim |-> <<extent.ymin, extent.ymax>>],
                after |-> [rebound EXCEPT !.location_label_options = options]]

\* The default-argument objects as the def statement creates them.
InitialDefaults ==
    [sizes |-> Dict(EmptyDict), colors |-> Dict(EmptyDict),
     route_list |-> List({}), location_list |-> List({}),
     location_labels |-> Dict(EmptyDict),
     location_label_options |-> Dict(EmptyDict)]

ObjectArgs == DOMAIN InitialDefaults

\* The objects a call's arguments denote: an omitted argument denotes the
\* function's default object.
Passed(req, defs) ==
    [a \in DOMAIN req |->
        IF a \in ObjectArgs
        THEN IF req[a].kind = "omitted" THEN defs[a] ELSE req[a]
        ELSE req[a]]

NoRequest ==
    [sizes |-> Omitted, colors |-> Omitted, route_list |-> Omitted,
     location_list |-> Omitted, location_labels |-> Omitted,
     location_label_options |-> Omitted, zoom |-> FALSE]

(***************************************************************************)
(* The state machine                                                       *)
(***************************************************************************)
Init ==
    /\ transform \in BOOLEAN
    /\ boroughs = LoadedBoroughs
    /\ corridors = LoadedCorridors
    /\ locations = LoadedLocations
    /\ defaults = InitialDefaults
    /\ pc = "ready"
    /\ request = NoRequest
    /\ passed = NoRequest
    /\ after = NoRequest
    /\ fig = NoFig
    /\ tpoints = <<>>
    /\ tresult = <<>>

\* fig = mapper.draw(...) with fig and ax omitted (a new figure is created).
Draw(req) ==
    /\ pc = "ready"
    /\ LET args == Passed(req, defaults)
           out == draw(transform, boroughs, corridors, locations, args)
       IN /\ request' = req
          /\ passed' = args
          /\ after' = out.after
          /\ fig' = out.fig
          /\ defaults' = [a \in ObjectArgs |->
                IF req[a].kind = "omitted" THEN out.after[a] ELSE defaults[a]]
    /\ pc' = "drawn"
    /\ UNCHANGED <<transform, boroughs, corridors, locations, tpoints, tresult>>

\* points = mapper.map_transform(points)
MapTransform(points) ==
    /\ pc = "ready"
    /\ tpoints' = points
    /\ tresult' = map_transform(transform, points)
    /\ pc' = "transformed"
    /\ UNCHANGED <<transform, boroughs, corridors, locations, defaults,
                   request, passed, after, fig>>

\* The caller drops what the last call returned and goes on to its next call.
Discard ==
    /\ pc # "ready"
    /\ pc' = "ready"
    /\ request' = NoRequest
    /\ passed' = NoRequest
    /\ after' = NoRequest
    /\ fig' = NoFig
    /\ tpoints' = <<>>
    /\ tresult' = <<>>
    /\ UNCHANGED <<transform, boroughs, corridors, locations, defaults>>

(***************************************************************************)
(* The calls a caller makes: the enumerated arguments                      *)
(***************************************************************************)
\* The ids a caller names: the loaded stations and one id no station has.
CallerLocationIds == {"S1", "S2", "S3", "X9"}
\* The route ids a caller names: the loaded routes and one with no corridor.
CallerRouteIds == {"A", "G", "L"}

Areas == -1 .. MaxArea

MapsOver(keys, values) == UNION {[D -> values] : D \in SUBSET keys}

SizeArgs ==
    {Omitted} \cup
    {Dict(d) : d \in {m \in MapsOver(CallerLocationIds, Areas) :
                        "X9" \in DOMAIN m => m["X9"] = 1}}
ColorArgs == {Omitted} \cup {Dict(d) : d \in MapsOver(CallerLocationIds, {"red"})}
LabelArgs ==
    {Omitted, Bool(TRUE), Bool(FALSE)} \cup
    {Dict(d) : d \in MapsOver(CallerLocationIds, {"name"})}
RouteArgs ==
    {Omitted, Bool(TRUE), Bool(FALSE)} \cup {List(l) : l \in SUBSET CallerRouteIds}
LocationArgs ==
    {Omitted, Bool(TRUE), Bool(FALSE)} \cup {List(l) : l \in SUBSET CallerLocationIds}
FewSizeArgs == {Omitted, Dict("S1" :> 1), Dict("S2" :> 1 @@ "X9" :> 1)}

\* Option dicts a caller writes, and the same dicts as an earlier call of
\* draw left them (a caller may pass one dict to several calls).
WrittenOptions ==
    UNION {{[param \in D |-> full[param]] :
              full \in [ha : {"left", "right", "center"},
                        va : {"center", "top", "bottom"},
                        fontsize : {12}]} :
           D \in SUBSET {"ha", "va", "fontsize"}}
OptionArgs ==
    {Omitted} \cup {Dict(d) : d \in WrittenOptions}
              \cup {Dict(MergeLabelOptions(d)) : d \in WrittenOptions}

GeoPoints == {-7400000, -7397580, -7390000} \X {4070000, 4076750, 4080000}
PointLists == UNION {[1..n -> GeoPoints] : n \in 0..MaxPoints}

\* Calls that supply sizes and labels.
DrawLabelled ==
    /\ pc = "ready"
    /\ \E s \in SizeArgs, l \in LabelArgs :
        Draw([NoRequest EXCEPT !.sizes = s, !.location_labels = l])

\* Calls that supply sizes and colors.
DrawColored ==
    /\ pc = "ready"
    /\ \E s \in SizeArgs, c \in ColorArgs :
        Draw([NoRequest EXCEPT !.sizes = s, !.colors = c])

\* Calls that select routes and locations.
DrawSelection ==
    /\ pc = "ready"
    /\ \E r \in RouteArgs, ll \in LocationArgs, s \in FewSizeArgs,
          l \in {Omitted, Bool(TRUE)} :
        Draw([NoRequest EXCEPT !.route_list = r, !.location_list = ll,
                               !.sizes = s, !.location_labels = l])

\* Calls that style the labels and choose the view.
DrawStyle ==
    /\ pc = "ready"
    /\ \E o \in OptionArgs, z \in BOOLEAN, s \in FewSizeArgs,
          ll \in {Omitted, Bool(FALSE), List({"S2", "X9"})} :
        Draw([NoRequest EXCEPT !.location_label_options = o, !.zoom = z,
                               !.sizes = s, !.location_list = ll])

Transform == pc = "ready" /\ \E points \in PointLists : MapTransform(points)

Next == DrawLabelled \/ DrawColored \/ DrawSelection \/ DrawStyle \/ Transform \/ Discard

Spec == Init /\ [][Next]_vars

(***************************************************************************)
(* Properties                                                              *)
(***************************************************************************)
\* A draw call has returned a figure.
Returned == pc = "drawn" /\ fig.status = "ok"

KnownLocationIds == {LoadedLocations[i].location_id : i \in DOMAIN LoadedLocations}

KnownRouteIds == {LoadedCorridors[i].route_id : i \in DOMAIN LoadedCorridors}

\* The ids of the rows of the table that carry a non-empty label.
LabelledIds == {fig.data[i].location_id : i \in {j \in DOMAIN fig.data : fig.data[j].label # ""}}

\* The name the loaded data gives a location.
NameOf(location_id) ==
    LoadedLocations[CHOOSE i \in DOMAIN LoadedLocations :
                        LoadedLocations[i].location_id = location_id].location_name

\* The selection a three-way selector stands for, as the documentation of
\* draw words it: everything when absent, empty or True, nothing when False.
Selected(selector, everything) ==
    IF selector = Omitted \/ selector = List({}) \/ selector = Bool(TRUE) THEN everything
    ELSE IF selector = Bool(FALSE) THEN {}
    ELSE selector.l

\* r is floor(1000 * sqrt(area / pi)).
IsRadiusOf(r, area) ==
    r >= 0 /\ r * r <= area * 318310 /\ (r + 1) * (r + 1) > area * 318310

\* C1: with the label selector absent or empty, no row is labelled when the
\* size map is absent or empty, and otherwise the labelled locations are
\* exactly the known locations that have an entry in the size map.
C1_LabelsFollowSizeEntries ==
    (Returned /\ is_empty(passed.location_labels)) =>
        IF is_empty(passed.sizes)
        THEN \A i \in DOMAIN fig.data : fig.data[i].label = ""
        ELSE /\ LabelledIds = KnownLocationIds \cap DOMAIN passed.sizes.d
             /\ \A i \in DOMAIN fig.data :
                    fig.data[i].label \in {"", NameOf(fig.data[i].location_id)}

C3_RowsSortedByDescendingRadius ==
    Returned =>
        \A i \in 1 .. (Len(fig.data) - 1) : fig.data[i].radius >= fig.data[i + 1].radius

\* A table whose rows differ in radius and are not in the loaded order.
C3_Witness ==
    /\ Returned
    /\ Len(fig.data) = 3
    /\ fig.data[1].radius > fig.data[2].radius
    /\ fig.data[1].location_id = "S3"
    /\ fig.data[2].location_id = "S1"

\* C4: the route selector stands for every known route when absent, empty or
\* True, for none when False and for the given ids otherwise, and draw
\* paints exactly one polyline for each shape id of a selected route and
\* none for any other.
C4_OnePolylinePerSelectedShape ==
    Returned =>
        LET selected == Selected(request.route_list, KnownRouteIds)
            wanted == {LoadedCorridors[i].shape_id :
                          i \in {j \in DOMAIN LoadedCorridors :
                                    LoadedCorridors[j].route_id \in selected}}
        IN /\ {fig.polylines[i].shape_id : i \in DOMAIN fig.polylines} = wanted
           /\ Len(fig.polylines) = Cardinality(wanted)
           /\ request.route_list = Bool(FALSE) => Len(fig.polylines) = 0

\* route_list=["A", "L"]: both corridors of route A painted, nothing else.
C4_Witness ==
    /\ Returned
    /\ request.route_list = List({"A", "L"})
    /\ Len(fig.polylines) = 2
    /\ fig.polylines[1].shape_id = "A.0"
    /\ fig.polylines[2].shape_id = "A.1"

\* C5 as stated: with a non-empty size map, no color map and no label
\* selector, the row of a location in the size map has color "gray", the
\* empty label and the radius derived from its supplied area.
C5_SizedRowGrayAndUnlabelled ==
    (Returned /\ ~is_empty(passed.sizes)
        /\ request.colors = Omitted /\ request.location_labels = Omitted) =>
        \A i \in DOMAIN fig.data :
            fig.data[i].location_id \in DOMAIN passed.sizes.d =>
                /\ fig.data[i].color = "gray"
                /\ fig.data[i].label = ""
                /\ fig.data[i].area = passed.sizes.d[fig.data[i].location_id]
                /\ IsRadiusOf(fig.data[i].radius, fig.data[i].area)

\* C5 amended: with a non-empty size map, no color map and no label
\* selector, the row of a location in the size map has color "gray", the
\* location's name as its label and the radius derived from its supplied
\* area.
C5_SizedRowGrayAndNamed ==
    (Returned /\ ~is_empty(passed.sizes)
        /\ request.colors = Omitted /\ request.location_labels = Omitted) =>
        \A i \in DOMAIN fig.data :
            fig.data[i].location_id \in DOMAIN passed.sizes.d =>
                /\ fig.data[i].color = "gray"
                /\ fig.data[i].label = NameOf(fig.data[i].location_id)
                /\ fig.data[i].area = passed.sizes.d[fig.data[i].location_id]
                /\ IsRadiusOf(fig.data[i].radius, fig.data[i].area)

\* draw(sizes={"S1": 1}) has returned.
C5_Witness ==
    /\ Returned
    /\ request.sizes = Dict("S1" :> 1)
    /\ request.colors = Omitted /\ request.location_labels = Omitted
    /\ \E i \in DOMAIN fig.data :
          /\ fig.data[i].location_id = "S1"
          /\ fig.data[i].radius = 564
          /\ fig.data[i].label = "First St"

\* C6: after a call every argument the caller supplied holds the entries it
\* held before the call.
C6_SuppliedArgumentsUnchanged ==
    pc = "drawn" =>
        \A a \in ObjectArgs : request[a] # Omitted => after[a] = passed[a]

\* C7: after any sequence of calls the loaded data is as construction left
\* it, and what a call returns and the label options it paints with are
\* those the same arguments give as the first call on a new mapper.
C7_CallsDoNotDependOnEarlierCalls ==
    /\ boroughs = LoadedBoroughs
    /\ corridors = LoadedCorridors
    /\ locations = LoadedLocations
    /\ pc = "drawn" =>
          LET first == draw(transform, LoadedBoroughs, LoadedCorridors, LoadedLocations,
                            Passed(request, InitialDefaults))
          IN /\ fig = first.fig
             /\ fig.status = "ok" =>
                    after.location_label_options = first.after.location_label_options

\* A call that omits location_label_options after an earlier call has
\* filled the shared default dict, and that painted labels.
C7_Witness ==
    /\ Returned
    /\ request.location_label_options = Omitted
    /\ passed.location_label_options # Dict(EmptyDict)
    /\ Len(fig.texts) = 3
    /\ fig.texts[1].options = default_location_label_options

\* C8 as stated: whatever the zoom flag, the background rectangle and the
\* masking rectangle cover the full extent of the mapper.
C8_RectanglesCoverFullExtent ==
    Returned =>
        /\ fig.background = {Rectangle(FullExtent(transform), "aliceblue", 100, "0")}
        /\ fig.mask = {Rectangle(FullExtent(transform), "white", 50, "2.5")}

\* C8 amended: the background rectangle and the masking rectangle both
\* cover the extent the zoom flag selects, which is also the final view:
\* the full extent without zoom, the zoomed sub-extent with it.
C8_RectanglesCoverView ==
    Returned =>
        LET extent == IF request.zoom THEN ZoomExtent(transform) ELSE FullExtent(transform)
        IN /\ fig.background = {Rectangle(extent, "aliceblue", 100, "0")}
           /\ fig.mask = {Rectangle(extent, "white", 50, "2.5")}
           /\ fig.xlim = <<extent.xmin, extent.xmax>>
           /\ fig.ylim = <<extent.ymin, extent.ymax>>

\* A zoomed call on a transforming mapper.
C8_Witness ==
    /\ Returned
    /\ request.zoom
    /\ transform
    /\ fig.xlim = <<746000, 854000>>
    /\ \E r \in fig.mask : r.xmin = 746000 /\ r.ymax = 741000

\* C9: with transformation enabled map_transform reprojects every point and
\* rotates it about the reprojected origin, so that the origin maps to its
\* own reprojection; with transformation disabled it returns its input.
C9_RotatesAboutReprojectedOrigin ==
    pc = "transformed" =>
        IF transform
        THEN /\ tresult = _map_rotate(_map_reproject(tpoints), RotateDegrees,
                                      Project(RotateOrigin))
             /\ \A i \in DOMAIN tpoints :
                    tpoints[i] = RotateOrigin => tresult[i] = Project(RotateOrigin)
        ELSE tresult = tpoints

\* C10: the row table has exactly one row for every known location whatever
\* the location selector and the caller's maps, and a circle and a label are
\* painted for exactly the rows of the selected locations.
C10_AllRowsBuiltSelectedRowsPainted ==
    Returned =>
        LET selected == Selected(request.location_list, KnownLocationIds)
            rows == PaintedRows(fig.data, selected)
        IN /\ Len(fig.data) = Len(LoadedLocations)
           /\ {fig.data[i].location_id : i \in DOMAIN fig.data} = KnownLocationIds
           /\ Len(fig.circles) = Len(rows)
           /\ Len(fig.texts) = Len(rows)
           /\ \A i \in DOMAIN rows :
                 /\ fig.circles[i].location_id = rows[i].location_id
                 /\ fig.circles[i].facecolor = rows[i].color
                 /\ fig.texts[i].location_id = rows[i].location_id
                 /\ fig.texts[i].text = rows[i].label

\* location_list=["S2", "X9"] with sizes naming X9: three rows, one circle.
C10_Witness ==
    /\ Returned
    /\ request.location_list = List({"S2", "X9"})
    /\ "X9" \in DOMAIN passed.sizes.d
    /\ Len(fig.data) = 3
    /\ Len(fig.circles) = 1
    /\ fig.circles[1].location_id = "S2"
    /\ Len(fig.texts) = 1

====
